---- MODULE Spec2Model ----
(***************************************************************************)
(* Model of the task-dependency workflow scheduler of                      *)
(* agentic_framework/core/workflows.py: Workflow (tasks, results,          *)
(* get_ready_tasks, is_complete, update_task_result) and WorkflowEngine    *)
(* (execute, _execute_task, _resolve_action).                              *)
(*                                                                         *)
(* execute is a coroutine on a single-threaded event loop: the code        *)
(* between two awaits is one atomic step.  The only await of execute is    *)
(* the asyncio.gather of a round, so one step of execute runs from the     *)
(* resumption after gather (result application, lines 231-243) through     *)
(* the loop test (215), the readiness check (217), and either the return   *)
(* (245), the raise (222) or the next fan-out (225).  Each _execute_task   *)
(* coroutine has two steps: its start up to the invocation of the action   *)
(* (261-280) and the completion of the action (283-294).                   *)
(***************************************************************************)
EXTENDS Integers, FiniteSets, Sequences, TLC

(* ------------------------------ bounds --------------------------------- *)
MaxTasks == 3        \* task names are 1..MaxTasks
MaxEdges == 3        \* total number of depends_on entries in a workflow
MaxInject == 1       \* results recorded by an external collaborator
MaxInjTasks == 2     \* task names used in the runs with such results
MaxCount == 2        \* cap of the invocation / dispatch counters
MaxActTasks == 2     \* task names used in the runs with action references
MaxActEdges == 1     \* depends_on entries in those runs
MaxCancelTasks == 3  \* task names used in the runs with cancellations
MaxCancelEdges == 2  \* depends_on entries in those runs
MaxRetryTasks == 2   \* task names used in the runs with retry counts
MaxRetryEdges == 1   \* depends_on entries in those runs
MaxRetry == 1        \* largest retry_count of a task
MaxResolveTasks == 1 \* task names used in the runs over all reference shapes
MaxCallTasks == 2    \* task names used in the runs with two execute calls
MaxCallEdges == 1    \* depends_on entries in those runs
MaxSchedTasks == 3   \* task names used in the runs with fixed outcomes
MaxSchedEdges == 2   \* depends_on entries in those runs
MaxExcTasks == 3     \* task names used in the runs with escaping exceptions

TaskNames == 1..MaxTasks
Calls == {1, 2}      \* execute calls on the one Workflow instance

(* --------------------------- data types -------------------------------- *)
\* class TaskStatus
PENDING == "PENDING"
RUNNING == "RUNNING"
COMPLETED == "COMPLETED"
FAILED == "FAILED"
CANCELLED == "CANCELLED"
TaskStatus == {PENDING, RUNNING, COMPLETED, FAILED, CANCELLED}

NoTask == [absent |-> TRUE]       \* name not in self.tasks
NoResult == [absent |-> TRUE]     \* name not in self.results
NoObj == [absent |-> TRUE]        \* execute has not returned an object
None == "None"

\* action references: a callable object, a non-string non-callable object,
\* or a string (dot-free "x", "y"; dotted "m.f" importable, "m.g" not)
Callable == "<callable>"
NonString == "<object>"
Strings == {"x", "y", "m.f", "m.g"}
HasDot(s) == s \in {"m.f", "m.g"}
Importable(s) == s = "m.f"

\* context values: a key is absent, bound to a callable or bound to data
Absent == "<absent>"
CtxValues == {Absent, Callable, "0", "1"}
EmptyContext == [k \in Strings |-> Absent]

\* keyword arguments of an invocation: a parameter of the task is passed
\* with its declared value, every other key with its context value
ParamValue == "<param>"

\* return values of an action: None, or the mapping {"x": 1}
MapX1 == "{x:1}"
Outputs == {None, MapX1}
\* the keys of a returned mapping and the values they carry
OutputKeys(o) == IF o = MapX1 THEN {"x"} ELSE {}
OutputValue(o, k) == "1"

\* exception classes: ValueError (resolution), TypeError (the call),
\* ActionError (any Exception subclass raised by an action body),
\* EngineError (an Exception raised by _execute_task outside its try block),
\* BaseOnly (a BaseException that is not an Exception)
ExceptionClasses == {"ValueError", "TypeError", "ActionError", "EngineError"}
BaseOnly == "BaseOnly"

\* what an _execute_task coroutine hands to gather: a TaskResult, or (with
\* return_exceptions=True) the exception object that ended the coroutine
ExcObject(class) == [exception |-> class]
IsExcObject(r) == "exception" \in DOMAIN r

\* dataclass TaskDefinition (name is the key of self.tasks)
TaskDefinition(action, parameters, depends_on, retry_count) ==
    [action |-> action, parameters |-> parameters,
     depends_on |-> depends_on, retry_count |-> retry_count]

\* dataclass TaskResult (task_name is the key of self.results)
TaskResult(status, output, error) ==
    [status |-> status, output |-> output, error |-> error]

(* ----------------------------- state ----------------------------------- *)
VARIABLES
    tasks,        \* Workflow.tasks: name -> TaskDefinition or NoTask
    results,      \* Workflow.results: name -> TaskResult or NoResult
    lastError,    \* error raised by the last Workflow method call
    pc,           \* per execute call: "idle", "gather", "returned", "deadlock"
    context,      \* per call: the context dict passed to execute
    retResults,   \* per call: the local dict `results` of execute
    ready_tasks,  \* per call: the ready list of the round in flight
    tstate,       \* per call and task: position of its _execute_task coroutine
    tresult,      \* per call and task: the local `result` of _execute_task
    retObj,       \* per call: the object returned by execute, or None
    callerCtx,    \* per call: the context as the caller passed it
    invokedCtx,   \* per call and task: keyword arguments of the last invocation
    raised,       \* per call and task: exception class raised in its last run
    readySnap,    \* per call: self.results as seen by the last readiness check
    invocations,  \* per call and task: number of invocations of the action
    dispatches,   \* per call and task: number of rounds the task was part of
    roundNo,      \* per call: number of rounds dispatched
    injections    \* number of results recorded by an external collaborator

wfVars == <<tasks, results, lastError>>
callVars == <<pc, context, retResults, ready_tasks, tstate, tresult, retObj>>
histVars == <<callerCtx, invokedCtx, raised, readySnap, invocations, dispatches, roundNo, injections>>
vars == <<tasks, results, lastError, pc, context, retResults, ready_tasks,
          tstate, tresult, retObj, callerCtx, invokedCtx, raised, readySnap,
          invocations, dispatches, roundNo, injections>>

Cap(n) == IF n < MaxCount THEN n + 1 ELSE MaxCount

(* ------------------------- Workflow methods ---------------------------- *)
Defined(ts) == {n \in TaskNames : ts[n] # NoTask}

HasResult(res, n) == n \in DOMAIN res /\ res[n] # NoResult

\* variant of the dependency loop without the status test of line 122
DependenciesMet_AnyResult(ts, res, n) ==
    \A dep \in ts[n].depends_on : HasResult(res, dep)

\* variant of the dependency loop that takes a missing result as satisfied
DependenciesMet_MissingOk(ts, res, n) ==
    \A dep \in ts[n].depends_on :
        HasResult(res, dep) => res[dep].status = COMPLETED

\* the dependency loop of get_ready_tasks (lines 116-125)
DependenciesMet(ts, res, n) ==
    \A dep \in ts[n].depends_on :
        HasResult(res, dep) /\ res[dep].status = COMPLETED

\* variant of line 111 that does not skip a task whose result is FAILED
SkipStatuses_RetryFailed == {COMPLETED, RUNNING}

\* variant of line 111 that also skips a task whose result is CANCELLED
SkipStatuses_AllTerminal == {COMPLETED, RUNNING, FAILED, CANCELLED}

\* lines 107-113: statuses for which a task with a result is skipped
SkipStatuses == {COMPLETED, RUNNING, FAILED}

\* variant of get_ready_tasks without the skip of lines 107-113
Skipped_Never(res, n) == FALSE

\* variant of the skip that lets a FAILED task run again while it has been
\* dispatched no more often than its retry_count
Skipped_RetriesFailed(res, n) ==
    /\ HasResult(res, n)
    /\ \/ res[n].status \in {COMPLETED, RUNNING}
       \/ res[n].status = FAILED /\ dispatches[1][n] > tasks[n].retry_count

Skipped(res, n) == HasResult(res, n) /\ res[n].status \in SkipStatuses

\* variant of get_ready_tasks without the dependency loop of lines 116-125
GetReadyTasks_NoDeps(ts, res) ==
    {n \in Defined(ts) : ~Skipped(res, n)}

\* Workflow.get_ready_tasks
GetReadyTasks(ts, res) ==
    {n \in Defined(ts) : ~Skipped(res, n) /\ DependenciesMet(ts, res, n)}

\* variant of is_complete that counts only COMPLETED as finished
IsComplete_OnlyCompleted(ts, res) ==
    /\ Defined(ts) # {}
    /\ \A n \in Defined(ts) : HasResult(res, n) /\ res[n].status = COMPLETED

\* variant of is_complete without the emptiness test of lines 152-153
IsComplete_NoEmptyTest(ts, res) ==
    \A n \in Defined(ts) :
        HasResult(res, n) /\ res[n].status \in {COMPLETED, FAILED, CANCELLED}

\* Workflow.is_complete
IsComplete(ts, res) ==
    /\ Defined(ts) # {}
    /\ \A n \in Defined(ts) :
          HasResult(res, n) /\ res[n].status \in {COMPLETED, FAILED, CANCELLED}

\* variant of get_status that counts only the tasks with an entry in results
GetStatus_OnlyRecorded(ts, res) ==
    [total_tasks |-> Cardinality(Defined(ts)),
     status_counts |->
        [s \in TaskStatus |->
            Cardinality({n \in Defined(ts) :
                            HasResult(res, n) /\ res[n].status = s})],
     is_complete |-> IsComplete(ts, res)]

\* Workflow.get_status (name omitted)
GetStatus(ts, res) ==
    [total_tasks |-> Cardinality(Defined(ts)),
     status_counts |->
        [s \in TaskStatus |->
            Cardinality({n \in Defined(ts) :
                            (IF HasResult(res, n) THEN res[n].status
                             ELSE PENDING) = s})],
     is_complete |-> IsComplete(ts, res)]

\* variant of update_task_result that keeps an existing entry (setdefault)
UpdateTaskResult_KeepFirst(res, name, r) ==
    IF res[name] = NoResult THEN [res EXCEPT ![name] = r] ELSE res

\* Workflow.update_task_result
UpdateTaskResult(res, name, r) == [res EXCEPT ![name] = r]

NumEdges(ts) ==
    Cardinality({p \in TaskNames \X TaskNames :
                    ts[p[1]] # NoTask /\ p[2] \in ts[p[1]].depends_on})

(* ------------------------ WorkflowEngine helpers ----------------------- *)
\* variant of _resolve_action without the test for a dot of line 317: a
\* dotted name bound in the context resolves to that binding
ResolveAction_AnyNameInContext(action, ctx) ==
    IF action = Callable THEN "direct"
    ELSE IF action \in Strings
         THEN IF ctx[action] # Absent /\ ctx[action] = Callable
              THEN "context"
              ELSE IF HasDot(action) /\ Importable(action)
                   THEN "module"
                   ELSE "ValueError"
         ELSE "ValueError"

\* WorkflowEngine._resolve_action: where the callable comes from, or the
\* ValueError it raises
ResolveAction(action, ctx) ==
    IF action = Callable THEN "direct"
    ELSE IF action \in Strings
         THEN IF ~HasDot(action) /\ ctx[action] # Absent /\ ctx[action] = Callable
              THEN "context"
              ELSE IF HasDot(action) /\ Importable(action)
                   THEN "module"
                   ELSE "ValueError"
         ELSE "ValueError"

ContextKeys(ctx) == {k \in Strings : ctx[k] # Absent}

\* variant of the call in which a key given by both sides is taken from
\* the parameters instead of being an error
KwargsCollide_ParametersWin(parameters, ctx) == FALSE

\* action_func(**task.parameters, **context): a key given twice is a
\* TypeError raised by the call itself
KwargsCollide(parameters, ctx) == parameters \cap ContextKeys(ctx) # {}

\* the keyword arguments of action_func(**task.parameters, **context)
Kwargs(parameters, ctx) ==
    [k \in Strings |-> IF k \in parameters THEN ParamValue ELSE ctx[k]]

\* variant of the except clause that catches ValueError only
Catches_OnlyValueError(class) == class = "ValueError"

\* `except Exception` of line 286
Catches(class) == class \in ExceptionClasses

\* lines 286-294: an exception raised inside the try block becomes a FAILED
\* TaskResult if the except clause catches it, else it ends the coroutine
TaskFailure(class) ==
    IF Catches(class) THEN TaskResult(FAILED, None, class)
    ELSE ExcObject(class)

\* the result of _execute_task for an outcome of the invoked action
\* (lines 283-294); an "engine" outcome is raised outside the try block
TaskOutcome(outcome) ==
    IF outcome.kind = "return" THEN TaskResult(COMPLETED, outcome.output, None)
    ELSE IF outcome.kind = "raise" THEN TaskFailure(outcome.class)
    ELSE ExcObject(outcome.class)

\* isinstance(result, Exception) of line 232
IsExceptionInstance(r) == IsExcObject(r) /\ r.exception \in ExceptionClasses

\* the entry of the returned results dict for one TaskResult (lines 238-243)
Summary(r) ==
    [status |-> r.status, output |-> r.output, error |-> r.error]

\* variant that merges the mapping a task returned into the context
ContextAfterRound_Merge(ctx, rnd, tres) ==
    [k \in Strings |->
        IF \E t \in rnd : ~IsExcObject(tres[t]) /\ k \in OutputKeys(tres[t].output)
        THEN "1" ELSE ctx[k]]

\* the context after the results of a round were applied: lines 231-243
\* write workflow.results and the local results dict, never the context
ContextAfterRound(ctx, rnd, tres) == ctx

\* variant of the loop that also records a CANCELLED result for every task
\* without a result that depends on a task that has just FAILED
ApplyResults_CancelsDependents(res, rnd, tres) ==
    LET applied == [n \in TaskNames |->
                       IF n \in rnd /\ ~IsExcObject(tres[n])
                       THEN tres[n] ELSE res[n]]
    IN [n \in TaskNames |->
           IF /\ tasks[n] # NoTask
              /\ applied[n] = NoResult
              /\ \E d \in tasks[n].depends_on :
                    applied[d] # NoResult /\ applied[d].status = FAILED
           THEN TaskResult(CANCELLED, None, None)
           ELSE applied[n]]

RECURSIVE ApplyResults(_, _, _)
\* the loop of lines 231-237 over the gathered results, on workflow.results
ApplyResults(res, rnd, tres) ==
    IF rnd = {} THEN res
    ELSE LET t == CHOOSE x \in rnd : TRUE
         IN ApplyResults(IF IsExceptionInstance(tres[t]) THEN res
                         ELSE UpdateTaskResult(res, t, tres[t]),
                         rnd \ {t}, tres)

\* variant of the loop that reports only successful tasks
ApplySummaries_OnlyCompleted(ret, rnd, tres) ==
    [n \in TaskNames |->
        IF n \in rnd /\ ~IsExcObject(tres[n]) /\ tres[n].status = COMPLETED
        THEN Summary(tres[n]) ELSE ret[n]]

RECURSIVE ApplySummaries(_, _, _)
\* the loop of lines 231-243 over the gathered results, on the local dict
ApplySummaries(ret, rnd, tres) ==
    IF rnd = {} THEN ret
    ELSE LET t == CHOOSE x \in rnd : TRUE
         IN ApplySummaries(IF IsExceptionInstance(tres[t]) THEN ret
                           ELSE [ret EXCEPT ![t] = Summary(tres[t])],
                           rnd \ {t}, tres)

\* a gathered object that is neither a TaskResult nor an Exception instance
\* reaches line 237, where result.task_name raises AttributeError
CrashesOnApply(rnd, tres) ==
    \E t \in rnd : IsExcObject(tres[t]) /\ ~IsExceptionInstance(tres[t])

\* asyncio.gather(...) of line 225 is done when every member is done
GatherDone(rnd, ts) == \A t \in rnd : ts[t] = "done"

(* ----------------------------- Init ------------------------------------ *)
\* Workflow.__init__ and no execute call started
Init ==
    /\ tasks = [n \in TaskNames |-> NoTask]
    /\ results = [n \in TaskNames |-> NoResult]
    /\ lastError = None
    /\ pc = [c \in Calls |-> "idle"]
    /\ context = [c \in Calls |-> EmptyContext]
    /\ retResults = [c \in Calls |-> [n \in TaskNames |-> NoResult]]
    /\ ready_tasks = [c \in Calls |-> {}]
    /\ tstate = [c \in Calls |-> [n \in TaskNames |-> "none"]]
    /\ tresult = [c \in Calls |-> [n \in TaskNames |-> NoResult]]
    /\ retObj = [c \in Calls |-> NoObj]
    /\ callerCtx = [c \in Calls |-> EmptyContext]
    /\ invokedCtx = [c \in Calls |-> [n \in TaskNames |-> NoObj]]
    /\ raised = [c \in Calls |-> [n \in TaskNames |-> None]]
    /\ readySnap = [c \in Calls |-> [n \in TaskNames |-> NoResult]]
    /\ invocations = [c \in Calls |-> [n \in TaskNames |-> 0]]
    /\ dispatches = [c \in Calls |-> [n \in TaskNames |-> 0]]
    /\ roundNo = [c \in Calls |-> 0]
    /\ injections = 0

NoCallStarted == \A c \in Calls : pc[c] = "idle"

(* ---------------------------- actions ---------------------------------- *)
\* variant of add_task without the test of line 74: the new definition
\* replaces the one of the same name
AddTask_Overwrites(n, def) ==
    /\ NoCallStarted
    /\ lastError' = None
    /\ tasks' = [tasks EXCEPT ![n] = def]
    /\ UNCHANGED <<results, callVars, histVars>>

\* Workflow.add_task, called by the builder before any execute call
AddTask(n, def) ==
    /\ NoCallStarted
    /\ IF tasks[n] # NoTask
       THEN /\ lastError' = "ValueError"
            /\ tasks' = tasks
       ELSE /\ lastError' = None
            /\ tasks' = [tasks EXCEPT ![n] = def]
    /\ UNCHANGED <<results, callVars, histVars>>

\* Workflow.update_task_result called by an external collaborator before
\* the execute call
InjectResult(n, r) ==
    /\ injections < MaxInject
    /\ NoCallStarted
    /\ results' = UpdateTaskResult(results, n, r)
    /\ injections' = injections + 1
    /\ lastError' = None
    /\ UNCHANGED <<tasks, callVars, callerCtx, invokedCtx, raised, readySnap,
                   invocations, dispatches, roundNo>>

\* Workflow.update_task_result called by an external collaborator while
\* execute is suspended in the gather of a round (line 225)
InjectDuringRound(n, r) ==
    /\ injections < MaxInject
    /\ \E c \in Calls : pc[c] = "gather"
    /\ results' = UpdateTaskResult(results, n, r)
    /\ injections' = injections + 1
    /\ lastError' = None
    /\ UNCHANGED <<tasks, callVars, callerCtx, invokedCtx, raised, readySnap,
                   invocations, dispatches, roundNo>>

\* variant of the loop that tests the ready list before completion
\* (a do-while loop): an empty ready list raises even when complete
LoopHead_ReadyFirst(c, ctx, res, ret) ==
    /\ results' = res
    /\ retResults' = [retResults EXCEPT ![c] = ret]
    /\ context' = [context EXCEPT ![c] = ctx]
    /\ lastError' = None
    /\ LET ready == GetReadyTasks(tasks, res)
       IN /\ readySnap' = [readySnap EXCEPT ![c] = res]
          /\ IF ready = {}
             THEN /\ pc' = [pc EXCEPT ![c] = "deadlock"]
                  /\ retObj' = retObj
                  /\ ready_tasks' = [ready_tasks EXCEPT ![c] = {}]
                  /\ tstate' = [tstate EXCEPT ![c] = [n \in TaskNames |-> "none"]]
                  /\ UNCHANGED <<dispatches, roundNo>>
             ELSE IF IsComplete(tasks, res)
             THEN /\ pc' = [pc EXCEPT ![c] = "returned"]
                  /\ retObj' = [retObj EXCEPT ![c] =
                              [workflow_status |-> "completed", results |-> ret]]
                  /\ ready_tasks' = [ready_tasks EXCEPT ![c] = {}]
                  /\ tstate' = [tstate EXCEPT ![c] = [n \in TaskNames |-> "none"]]
                  /\ UNCHANGED <<dispatches, roundNo>>
             ELSE /\ pc' = [pc EXCEPT ![c] = "gather"]
                  /\ retObj' = retObj
                  /\ ready_tasks' = [ready_tasks EXCEPT ![c] = ready]
                  /\ tstate' = [tstate EXCEPT ![c] =
                         [n \in TaskNames |->
                             IF n \in ready THEN "scheduled" ELSE "none"]]
                  /\ dispatches' = [dispatches EXCEPT ![c] =
                         [n \in TaskNames |->
                             IF n \in ready THEN Cap(@[n]) ELSE @[n]]]
                  /\ roundNo' = [roundNo EXCEPT ![c] = Cap(@)]

\* variant of the loop that, when no task is ready, hands the caller an
\* object with the results so far
LoopHead_DeadlockReturns(c, ctx, res, ret) ==
    /\ results' = res
    /\ retResults' = [retResults EXCEPT ![c] = ret]
    /\ context' = [context EXCEPT ![c] = ctx]
    /\ lastError' = None
    /\ IF IsComplete(tasks, res)
       THEN /\ pc' = [pc EXCEPT ![c] = "returned"]
            /\ retObj' = [retObj EXCEPT ![c] =
                              [workflow_status |-> "completed", results |-> ret]]
            /\ ready_tasks' = [ready_tasks EXCEPT ![c] = {}]
            /\ tstate' = [tstate EXCEPT ![c] = [n \in TaskNames |-> "none"]]
            /\ UNCHANGED <<readySnap, dispatches, roundNo>>
       ELSE LET ready == GetReadyTasks(tasks, res)
            IN /\ readySnap' = [readySnap EXCEPT ![c] = res]
               /\ retObj' = IF ready = {}
                            THEN [retObj EXCEPT ![c] =
                                     [workflow_status |-> "deadlock", results |-> ret]]
                            ELSE retObj
               /\ IF ready = {}
                  THEN /\ pc' = [pc EXCEPT ![c] = "deadlock"]
                       /\ ready_tasks' = [ready_tasks EXCEPT ![c] = {}]
                       /\ tstate' = [tstate EXCEPT ![c] =
                                         [n \in TaskNames |-> "none"]]
                       /\ UNCHANGED <<dispatches, roundNo>>
                  ELSE /\ pc' = [pc EXCEPT ![c] = "gather"]
                       /\ ready_tasks' = [ready_tasks EXCEPT ![c] = ready]
                       /\ tstate' = [tstate EXCEPT ![c] =
                              [n \in TaskNames |->
                                  IF n \in ready THEN "scheduled" ELSE "none"]]
                       /\ dispatches' = [dispatches EXCEPT ![c] =
                              [n \in TaskNames |->
                                  IF n \in ready THEN Cap(@[n]) ELSE @[n]]]
                       /\ roundNo' = [roundNo EXCEPT ![c] = Cap(@)]

\* WorkflowEngine.execute from the loop test of line 215 to the next await,
\* return or raise, with workflow.results = res and the local results = ret
LoopHead(c, ctx, res, ret) ==
    /\ results' = res
    /\ retResults' = [retResults EXCEPT ![c] = ret]
    /\ context' = [context EXCEPT ![c] = ctx]
    /\ lastError' = None
    /\ IF IsComplete(tasks, res)
       THEN /\ pc' = [pc EXCEPT ![c] = "returned"]
            /\ retObj' = [retObj EXCEPT ![c] =
                              [workflow_status |-> "completed", results |-> ret]]
            /\ ready_tasks' = [ready_tasks EXCEPT ![c] = {}]
            /\ tstate' = [tstate EXCEPT ![c] = [n \in TaskNames |-> "none"]]
            /\ UNCHANGED <<readySnap, dispatches, roundNo>>
       ELSE LET ready == GetReadyTasks(tasks, res)
            IN /\ readySnap' = [readySnap EXCEPT ![c] = res]
               /\ retObj' = retObj
               /\ IF ready = {}
                  THEN /\ pc' = [pc EXCEPT ![c] = "deadlock"]
                       /\ ready_tasks' = [ready_tasks EXCEPT ![c] = {}]
                       /\ tstate' = [tstate EXCEPT ![c] =
                                         [n \in TaskNames |-> "none"]]
                       /\ UNCHANGED <<dispatches, roundNo>>
                  ELSE /\ pc' = [pc EXCEPT ![c] = "gather"]
                       /\ ready_tasks' = [ready_tasks EXCEPT ![c] = ready]
                       /\ tstate' = [tstate EXCEPT ![c] =
                              [n \in TaskNames |->
                                  IF n \in ready THEN "scheduled" ELSE "none"]]
                       /\ dispatches' = [dispatches EXCEPT ![c] =
                              [n \in TaskNames |->
                                  IF n \in ready THEN Cap(@[n]) ELSE @[n]]]
                       /\ roundNo' = [roundNo EXCEPT ![c] = Cap(@)]

\* variant of execute that empties workflow.results when a call starts
ExecuteStart_ClearsResults(c, ctx) ==
    /\ pc[c] = "idle"
    /\ callerCtx' = [callerCtx EXCEPT ![c] = ctx]
    /\ LoopHead(c, ctx, [n \in TaskNames |-> NoResult],
                [n \in TaskNames |-> NoResult])
    /\ UNCHANGED <<tasks, tresult, invokedCtx, raised, invocations, injections>>

\* a caller starts execute(workflow, ctx): line 213 and the first loop test
ExecuteStart(c, ctx) ==
    /\ pc[c] = "idle"
    /\ callerCtx' = [callerCtx EXCEPT ![c] = ctx]
    /\ LoopHead(c, ctx, results, [n \in TaskNames |-> NoResult])
    /\ UNCHANGED <<tasks, tresult, invokedCtx, raised, invocations, injections>>

\* variant in which _execute_task records its RUNNING result in
\* workflow.results when it starts
TaskInvoke_MarksRunning(c, t) ==
    /\ pc[c] = "gather"
    /\ tstate[c][t] = "scheduled"
    /\ LET def == tasks[t]
           resolved == ResolveAction(def.action, context[c])
       IN IF resolved = "ValueError"
          THEN /\ tresult' = [tresult EXCEPT ![c][t] = TaskFailure("ValueError")]
               /\ tstate' = [tstate EXCEPT ![c][t] = "done"]
               /\ raised' = [raised EXCEPT ![c][t] = "ValueError"]
               /\ UNCHANGED <<invokedCtx, invocations>>
          ELSE IF KwargsCollide(def.parameters, context[c])
          THEN /\ tresult' = [tresult EXCEPT ![c][t] = TaskFailure("TypeError")]
               /\ tstate' = [tstate EXCEPT ![c][t] = "done"]
               /\ raised' = [raised EXCEPT ![c][t] = "TypeError"]
               /\ UNCHANGED <<invokedCtx, invocations>>
          ELSE /\ tresult' = [tresult EXCEPT ![c][t] =
                                  TaskResult(RUNNING, None, None)]
               /\ tstate' = [tstate EXCEPT ![c][t] = "invoked"]
               /\ invokedCtx' = [invokedCtx EXCEPT ![c][t] =
                                     Kwargs(def.parameters, context[c])]
               /\ invocations' = [invocations EXCEPT ![c][t] = Cap(@)]
               /\ raised' = [raised EXCEPT ![c][t] = None]
    /\ results' = UpdateTaskResult(results, t, TaskResult(RUNNING, None, None))
    /\ UNCHANGED <<tasks, lastError, pc, context, retResults, ready_tasks,
                   retObj, callerCtx, readySnap, dispatches, roundNo, injections>>

\* _execute_task from its start to the invocation of the action
\* (lines 261-280): resolution, then the call with both keyword sets
TaskInvoke(c, t) ==
    /\ pc[c] = "gather"
    /\ tstate[c][t] = "scheduled"
    /\ LET def == tasks[t]
           resolved == ResolveAction(def.action, context[c])
       IN IF resolved = "ValueError"
          THEN /\ tresult' = [tresult EXCEPT ![c][t] = TaskFailure("ValueError")]
               /\ tstate' = [tstate EXCEPT ![c][t] = "done"]
               /\ raised' = [raised EXCEPT ![c][t] = "ValueError"]
               /\ UNCHANGED <<invokedCtx, invocations>>
          ELSE IF KwargsCollide(def.parameters, context[c])
          THEN /\ tresult' = [tresult EXCEPT ![c][t] = TaskFailure("TypeError")]
               /\ tstate' = [tstate EXCEPT ![c][t] = "done"]
               /\ raised' = [raised EXCEPT ![c][t] = "TypeError"]
               /\ UNCHANGED <<invokedCtx, invocations>>
          ELSE /\ tresult' = [tresult EXCEPT ![c][t] =
                                  TaskResult(RUNNING, None, None)]
               /\ tstate' = [tstate EXCEPT ![c][t] = "invoked"]
               /\ invokedCtx' = [invokedCtx EXCEPT ![c][t] =
                                     Kwargs(def.parameters, context[c])]
               /\ invocations' = [invocations EXCEPT ![c][t] = Cap(@)]
               /\ raised' = [raised EXCEPT ![c][t] = None]
    /\ UNCHANGED <<wfVars, pc, context, retResults, ready_tasks, retObj,
                   callerCtx, readySnap, dispatches, roundNo, injections>>

\* variant in which _execute_task records its result in workflow.results
\* itself, as soon as the action ends
TaskFinish_RecordsAtOnce(c, t, outcome) ==
    /\ pc[c] = "gather"
    /\ tstate[c][t] = "invoked"
    /\ tresult' = [tresult EXCEPT ![c][t] = TaskOutcome(outcome)]
    /\ tstate' = [tstate EXCEPT ![c][t] = "done"]
    /\ raised' = [raised EXCEPT ![c][t] =
                      IF outcome.kind = "return" THEN None ELSE outcome.class]
    /\ results' = UpdateTaskResult(results, t, TaskOutcome(outcome))
    /\ UNCHANGED <<tasks, lastError, pc, context, retResults, ready_tasks,
                   retObj, callerCtx, invokedCtx, readySnap, invocations,
                   dispatches, roundNo, injections>>

\* variant in which the mapping an action returns is merged into the
\* context as soon as the action ends, while the round is in flight
TaskFinish_MergesAtOnce(c, t, outcome) ==
    /\ pc[c] = "gather"
    /\ tstate[c][t] = "invoked"
    /\ tresult' = [tresult EXCEPT ![c][t] = TaskOutcome(outcome)]
    /\ tstate' = [tstate EXCEPT ![c][t] = "done"]
    /\ raised' = [raised EXCEPT ![c][t] =
                      IF outcome.kind = "return" THEN None ELSE outcome.class]
    /\ context' = [context EXCEPT ![c] =
                      ContextAfterRound_Merge(@, {t}, tresult'[c])]
    /\ UNCHANGED <<wfVars, pc, retResults, ready_tasks, retObj,
                   callerCtx, invokedCtx, readySnap, invocations, dispatches,
                   roundNo, injections>>

\* the invoked action returns or raises and _execute_task ends
TaskFinish(c, t, outcome) ==
    /\ pc[c] = "gather"
    /\ tstate[c][t] = "invoked"
    /\ tresult' = [tresult EXCEPT ![c][t] = TaskOutcome(outcome)]
    /\ tstate' = [tstate EXCEPT ![c][t] = "done"]
    /\ raised' = [raised EXCEPT ![c][t] =
                      IF outcome.kind = "return" THEN None ELSE outcome.class]
    /\ UNCHANGED <<wfVars, pc, context, retResults, ready_tasks, retObj,
                   callerCtx, invokedCtx, readySnap, invocations, dispatches,
                   roundNo, injections>>

\* variant of the round that waits for the first member only
\* (asyncio.wait with FIRST_COMPLETED): execute resumes as soon as one
\* member is done and applies the results of the members done by then
GatherResume_FirstCompleted(c) ==
    /\ pc[c] = "gather"
    /\ \E t \in ready_tasks[c] : tstate[c][t] = "done"
    /\ LET done == {t \in ready_tasks[c] : tstate[c][t] = "done"}
       IN LoopHead(c, ContextAfterRound(context[c], done, tresult[c]),
                   ApplyResults(results, done, tresult[c]),
                   ApplySummaries(retResults[c], done, tresult[c]))
    /\ UNCHANGED <<tasks, tresult, callerCtx, invokedCtx, raised, invocations,
                   injections>>

\* gather completes and execute resumes: either an object without task_name
\* aborts the call at line 237 (the results applied before it are those of
\* the members that precede it in the ready list), or all results of the
\* round are applied and the loop goes on
GatherResume(c) ==
    /\ pc[c] = "gather"
    /\ GatherDone(ready_tasks[c], tstate[c])
    /\ IF CrashesOnApply(ready_tasks[c], tresult[c])
       THEN /\ \E before \in SUBSET {t \in ready_tasks[c] :
                                        ~IsExcObject(tresult[c][t])} :
                 /\ results' = ApplyResults(results, before, tresult[c])
                 /\ retResults' = [retResults EXCEPT ![c] =
                        ApplySummaries(@, before, tresult[c])]
            /\ pc' = [pc EXCEPT ![c] = "error"]
            /\ lastError' = "AttributeError"
            /\ UNCHANGED <<context, ready_tasks, tstate, retObj, readySnap,
                           dispatches, roundNo>>
       ELSE LoopHead(c, ContextAfterRound(context[c], ready_tasks[c], tresult[c]),
                     ApplyResults(results, ready_tasks[c], tresult[c]),
                     ApplySummaries(retResults[c], ready_tasks[c], tresult[c]))
    /\ UNCHANGED <<tasks, tresult, callerCtx, invokedCtx, raised, invocations,
                   injections>>

(* ------------------- the scheduling specifications --------------------- *)
\* inputs: one execute call on a freshly built workflow, directly callable
\* actions that return or raise, no parameters, an empty context, any
\* dependency lists over the task names within the edge bound
CoreDefs ==
    {TaskDefinition(Callable, {}, d, 0) : d \in SUBSET TaskNames}
CoreOutcomes ==
    {[kind |-> "return", output |-> None],
     [kind |-> "raise", class |-> "ActionError"]}
InjectedResults ==
    {TaskResult(s, None, None) : s \in TaskStatus}

WithinEdges(def, maxEdges) ==
    NumEdges(tasks) + Cardinality(def.depends_on) <= maxEdges

\* the engine is the only writer of workflow.results
Next ==
    \/ \E n \in TaskNames, def \in CoreDefs :
          AddTask(n, def) /\ WithinEdges(def, MaxEdges)
    \/ ExecuteStart(1, EmptyContext)
    \/ \E t \in TaskNames : TaskInvoke(1, t)
    \/ \E t \in TaskNames, o \in CoreOutcomes : TaskFinish(1, t, o)
    \/ GatherResume(1)

Spec == Init /\ [][Next]_vars

\* an external collaborator may also record results
InjNames == 1..MaxInjTasks
InjDefs ==
    {TaskDefinition(Callable, {}, d, 0) : d \in SUBSET InjNames}

NextInject ==
    \/ \E n \in InjNames, def \in InjDefs :
          AddTask(n, def) /\ WithinEdges(def, MaxEdges)
    \/ \E n \in InjNames, r \in InjectedResults : InjectResult(n, r)
    \/ ExecuteStart(1, EmptyContext)
    \/ \E t \in TaskNames : TaskInvoke(1, t)
    \/ \E t \in TaskNames, o \in CoreOutcomes : TaskFinish(1, t, o)
    \/ GatherResume(1)

SpecInject == Init /\ [][NextInject]_vars

\* every started coroutine is scheduled by the event loop, every invoked
\* action returns or raises, and execute resumes when gather is done
Fairness ==
    /\ WF_vars(\E t \in TaskNames : TaskInvoke(1, t))
    /\ WF_vars(\E t \in TaskNames, o \in CoreOutcomes : TaskFinish(1, t, o))
    /\ WF_vars(GatherResume(1))

FairSpec == Spec /\ Fairness

FairSpecInject == SpecInject /\ Fairness

(* ------------- the specification with cancellations ------------------- *)
\* inputs: one execute call; an external collaborator records a CANCELLED
\* result for a task, before the call or while a round is in flight
CancelNames == 1..MaxCancelTasks
CancelDefs ==
    {TaskDefinition(Callable, {}, d, 0) : d \in SUBSET CancelNames}
CancelResults == {TaskResult(CANCELLED, None, None)}

NextCancel ==
    \/ \E n \in CancelNames, def \in CancelDefs :
          AddTask(n, def) /\ WithinEdges(def, MaxCancelEdges)
    \/ \E n \in CancelNames, r \in CancelResults : InjectResult(n, r)
    \/ \E n \in CancelNames, r \in CancelResults : InjectDuringRound(n, r)
    \/ ExecuteStart(1, EmptyContext)
    \/ \E t \in TaskNames : TaskInvoke(1, t)
    \/ \E t \in TaskNames, o \in CoreOutcomes : TaskFinish(1, t, o)
    \/ GatherResume(1)

SpecCancel == Init /\ [][NextCancel]_vars

(* --------- the specification with escaping exceptions ----------------- *)
\* inputs: one execute call on a freshly built workflow whose actions
\* return, raise an Exception, or raise asyncio.CancelledError, which is a
\* BaseException only: line 286 does not catch it, the _execute_task
\* coroutine ends with it and gather hands the exception object to execute
ExcNames == 1..MaxExcTasks
ExcDefs ==
    {TaskDefinition(Callable, {}, d, 0) : d \in SUBSET ExcNames}
ExcOutcomes ==
    CoreOutcomes \cup {[kind |-> "raise", class |-> BaseOnly]}

NextExc ==
    \/ \E n \in ExcNames, def \in ExcDefs :
          AddTask(n, def) /\ WithinEdges(def, MaxEdges)
    \/ ExecuteStart(1, EmptyContext)
    \/ \E t \in TaskNames : TaskInvoke(1, t)
    \/ \E t \in TaskNames, o \in ExcOutcomes : TaskFinish(1, t, o)
    \/ GatherResume(1)

SpecExc == Init /\ [][NextExc]_vars

(* ------------- the specification with retry counts ------------------- *)
\* inputs: one execute call on a freshly built workflow whose tasks declare
\* a retry_count from 0 to MaxRetry
RetryNames == 1..MaxRetryTasks
RetryCounts == 0..MaxRetry
RetryDefs ==
    {TaskDefinition(Callable, {}, d, rc) :
        d \in SUBSET RetryNames, rc \in RetryCounts}

NextRetry ==
    \/ \E n \in RetryNames, def \in RetryDefs :
          AddTask(n, def) /\ WithinEdges(def, MaxRetryEdges)
    \/ ExecuteStart(1, EmptyContext)
    \/ \E t \in TaskNames : TaskInvoke(1, t)
    \/ \E t \in TaskNames, o \in CoreOutcomes : TaskFinish(1, t, o)
    \/ GatherResume(1)

SpecRetry == Init /\ [][NextRetry]_vars

(* ------- the specification over the shapes of action references ------- *)
\* inputs: one execute call on a workflow of independent tasks whose action
\* is a callable, an object that is neither callable nor a string, a
\* dot-free name or a dotted path, with a context that binds the name "x"
\* to nothing, a callable or a datum, and the dotted names to nothing or a
\* callable; the name "y" is never bound
ResolveNames == 1..MaxResolveTasks
ResolveActions == {Callable, NonString} \cup Strings
ResolveDefs == {TaskDefinition(a, {}, {}, 0) : a \in ResolveActions}
ResolveContexts ==
    {[k \in Strings |->
         IF k = "x" THEN vx ELSE IF k = "m.f" THEN vf
         ELSE IF k = "m.g" THEN vg ELSE Absent] :
        vx \in {Absent, Callable, "1"}, vf \in {Absent, Callable},
        vg \in {Absent, Callable}}

NextResolve ==
    \/ \E n \in ResolveNames, def \in ResolveDefs : AddTask(n, def)
    \/ \E ctx \in ResolveContexts : ExecuteStart(1, ctx)
    \/ \E t \in TaskNames : TaskInvoke(1, t)
    \/ \E t \in TaskNames, o \in CoreOutcomes : TaskFinish(1, t, o)
    \/ GatherResume(1)

SpecResolve == Init /\ [][NextResolve]_vars

(* ----------- the specification with two execute calls ----------------- *)
\* inputs: two execute calls on the one Workflow instance, one after the
\* other or overlapping: each call is a coroutine of its own with its own
\* local results, and both read and write workflow.results
CallNames == 1..MaxCallTasks
CallDefs ==
    {TaskDefinition(Callable, {}, d, 0) : d \in SUBSET CallNames}

NextCalls ==
    \/ \E n \in CallNames, def \in CallDefs :
          AddTask(n, def) /\ WithinEdges(def, MaxCallEdges)
    \/ \E c \in Calls : ExecuteStart(c, EmptyContext)
    \/ \E c \in Calls, t \in TaskNames : TaskInvoke(c, t)
    \/ \E c \in Calls, t \in TaskNames, o \in CoreOutcomes : TaskFinish(c, t, o)
    \/ \E c \in Calls : GatherResume(c)

SpecCalls == Init /\ [][NextCalls]_vars

(* ------------- the specification with fixed outcomes ------------------- *)
\* inputs: one execute call with an empty context on a workflow whose
\* actions each have one fixed outcome: the callable given directly returns
\* None, the function imported as m.f raises;
\* the members of a round start and finish in any order
SchedNames == 1..MaxSchedTasks
SchedActions == {Callable, "m.f"}
SchedDefs ==
    {TaskDefinition(a, {}, d, 0) : a \in SchedActions, d \in SUBSET SchedNames}
SchedOutcome(def) ==
    IF def.action = Callable
    THEN [kind |-> "return", output |-> None]
    ELSE [kind |-> "raise", class |-> "ActionError"]

NextSched ==
    \/ \E n \in SchedNames, def \in SchedDefs :
          AddTask(n, def) /\ WithinEdges(def, MaxSchedEdges)
    \/ ExecuteStart(1, EmptyContext)
    \/ \E t \in TaskNames : TaskInvoke(1, t)
    \/ \E t \in TaskNames : TaskFinish(1, t, SchedOutcome(tasks[t]))
    \/ GatherResume(1)

SpecSched == Init /\ [][NextSched]_vars

(* ---------- the specification with action references ------------------ *)
\* inputs: one execute call on a freshly built workflow whose actions are
\* callables, context names or module paths, with or without a parameter,
\* run with a context that binds "x" and "y" or not, the actions returning
\* None or a mapping, or raising
ActNames == 1..MaxActTasks
ActActions == {Callable, "x", "m.g"}
ActParams == {{}, {"y"}}
ActDefs ==
    {TaskDefinition(a, p, d, 0) :
        a \in ActActions, p \in ActParams, d \in SUBSET ActNames}
ActContexts ==
    {[k \in Strings |-> IF k = "x" THEN vx ELSE IF k = "y" THEN vy ELSE Absent] :
        vx \in {Absent, Callable, "1"}, vy \in {Absent, "0"}}
ActOutcomes ==
    {[kind |-> "return", output |-> None],
     [kind |-> "return", output |-> MapX1],
     [kind |-> "raise", class |-> "ActionError"]}

NextAct ==
    \/ \E n \in ActNames, def \in ActDefs :
          AddTask(n, def) /\ WithinEdges(def, MaxActEdges)
    \/ \E ctx \in ActContexts : ExecuteStart(1, ctx)
    \/ \E t \in TaskNames : TaskInvoke(1, t)
    \/ \E t \in TaskNames, o \in ActOutcomes : TaskFinish(1, t, o)
    \/ GatherResume(1)

SpecAct == Init /\ [][NextAct]_vars

(* ======================= properties of execute ========================= *)
InRound(t) == tstate[1][t] \in {"scheduled", "invoked", "done"}
Ended == pc[1] \in {"returned", "deadlock", "error"}

\* C1 (dependency ordering): a task that is part of the round in flight,
\* so in particular a task whose action has been invoked, had at the
\* readiness check of that round a COMPLETED result for every name of its
\* depends_on
DependencyOrdering ==
    \A t \in TaskNames :
        InRound(t) =>
            \A d \in tasks[t].depends_on :
                /\ readySnap[1][d] # NoResult
                /\ readySnap[1][d].status = COMPLETED

DependencyOrderingWitness ==
    \E t \in TaskNames :
        /\ tstate[1][t] = "invoked"
        /\ invocations[1][t] = 1
        /\ tasks[t].depends_on # {}

\* a step of execute that passes the loop test of line 215: the start of
\* the call, or its resumption when the round in flight is done
LoopStep ==
    \/ pc[1] = "idle" /\ pc'[1] # "idle"
    \/ pc[1] = "gather" /\ tstate'[1] # tstate[1]
                        /\ \A t \in TaskNames : tstate'[1][t] \in {"none", "scheduled"}

\* C2 (deadlock detection is exact): at every loop iteration execute raises
\* the deadlock error iff the workflow is not complete and no task is
\* ready, it returns iff the workflow is complete, and away from a loop
\* iteration it neither raises nor returns
DeadlockExact ==
    [][/\ LoopStep =>
            /\ (pc'[1] = "deadlock") <=>
                  (~IsComplete(tasks, results')
                      /\ GetReadyTasks(tasks, results') = {})
            /\ (pc'[1] = "returned") <=> IsComplete(tasks, results')
            /\ (retObj'[1] # NoObj) <=> IsComplete(tasks, results')
       /\ ~LoopStep => pc'[1] = pc[1] /\ retObj'[1] = retObj[1]]_vars

DeadlockExactWitness ==
    /\ pc[1] = "deadlock"
    /\ roundNo[1] > 0
    /\ \E t \in Defined(tasks) : results[t] = NoResult

(* the dependency graph of the workflow *)
DepsOf(S) == UNION {tasks[n].depends_on : n \in S \cap Defined(tasks)}

RECURSIVE ReachN(_, _)
ReachN(S, k) == IF k = 0 THEN S ELSE ReachN(S \cup DepsOf(S), k - 1)

\* the names a task depends on, directly or transitively
Reach(t) == ReachN(DepsOf({t}), MaxTasks)
OnCycle(t) == t \in Reach(t)
\* on a cycle, or depending transitively on a task that is
CycleBound(t) == OnCycle(t) \/ \E u \in Reach(t) : OnCycle(u)
Started == pc[1] # "idle"

\* the two-task workflow {A depends_on B, B depends_on A}
TwoCycle ==
    /\ Defined(tasks) = {1, 2}
    /\ tasks[1].depends_on = {2}
    /\ tasks[2].depends_on = {1}

\* C3 (cycles deadlock), as claimed: in a call on a workflow with a
\* dependency cycle, no task on a cycle or depending transitively on one is
\* ever dispatched or invoked or has a result, and the call never returns
\* normally: when it has ended, it has raised the deadlock error; the
\* two-task cycle ends with no result at all
CycleDeadlocks ==
    \A t \in Defined(tasks) :
        (Started /\ CycleBound(t)) =>
            /\ dispatches[1][t] = 0
            /\ invocations[1][t] = 0
            /\ results[t] = NoResult
            /\ pc[1] # "returned"
            /\ Ended => pc[1] = "deadlock"
            /\ TwoCycle => \A n \in TaskNames : results[n] = NoResult

\* C3, amended: the same, for a call on a workflow on which no result was
\* recorded by an external collaborator
CycleDeadlocksFresh ==
    \A t \in Defined(tasks) :
        (Started /\ CycleBound(t) /\ injections = 0) =>
            /\ dispatches[1][t] = 0
            /\ invocations[1][t] = 0
            /\ results[t] = NoResult
            /\ pc[1] # "returned"
            /\ Ended => pc[1] = "deadlock"
            /\ TwoCycle => \A n \in TaskNames : results[n] = NoResult

\* the call on the two-task cycle has ended
CycleDeadlocksWitness ==
    /\ TwoCycle
    /\ injections = 0
    /\ pc[1] = "deadlock"

StatusOf(t) == IF results[t] = NoResult THEN PENDING ELSE results[t].status
FailedTasks == {t \in Defined(tasks) : StatusOf(t) = FAILED}
\* no task names a failed task in its depends_on
FailuresIsolated ==
    \A f \in FailedTasks : \A t \in Defined(tasks) : f \notin tasks[t].depends_on
\* no cycle and no dependency on an undefined name
NoOtherBlock ==
    \A t \in Defined(tasks) :
        ~CycleBound(t) /\ tasks[t].depends_on \subseteq Defined(tasks)

\* C5 (isolated failure): in a workflow without a cycle or an undefined
\* dependency, when some task has failed and no task depends on any failed
\* task the call does not end in deadlock: it returns, every failed task is FAILED and every other
\* task is COMPLETED
IsolatedFailure ==
    (Ended /\ FailedTasks # {} /\ NoOtherBlock /\ FailuresIsolated) =>
        /\ pc[1] = "returned"
        /\ \A t \in Defined(tasks) :
              /\ StatusOf(t) \in {COMPLETED, FAILED}
              /\ (StatusOf(t) = FAILED) <=> (raised[1][t] # None)
              /\ invocations[1][t] = 1

IsolatedFailureWitness ==
    /\ pc[1] = "returned"
    /\ \E a, b \in Defined(tasks) :
          /\ StatusOf(a) = FAILED /\ raised[1][a] = "ActionError"
          /\ StatusOf(b) = COMPLETED /\ tasks[b].depends_on = {}
    /\ FailuresIsolated

\* a dependency that blocks for good: a FAILED task or an undefined name
BlockingDep(d) == d \notin Defined(tasks) \/ StatusOf(d) = FAILED

\* C7 (permanent block): a task that depends on a FAILED task or on an
\* undefined name is never dispatched, never invoked and never gets a
\* result, and a call on a workflow with such a task never returns: when it
\* has ended it has raised the deadlock error
BlockedNeverRuns ==
    \A t \in Defined(tasks) :
        (Started /\ \E d \in tasks[t].depends_on : BlockingDep(d)) =>
            /\ dispatches[1][t] = 0
            /\ invocations[1][t] = 0
            /\ results[t] = NoResult
            /\ pc[1] # "returned"
            /\ Ended => pc[1] = "deadlock"

BlockedNeverRunsWitness ==
    /\ pc[1] = "deadlock"
    /\ \E t \in Defined(tasks) : \E d \in tasks[t].depends_on :
          StatusOf(d) = FAILED /\ raised[1][d] = "ActionError"
    /\ \E t \in Defined(tasks) : \E d \in tasks[t].depends_on :
          d \notin Defined(tasks)

\* C8 (round barrier): while a round is in flight workflow.results is what
\* the readiness check of that round saw; the action of a task is invoked
\* only while its round is in flight; and execute passes to the next loop
\* iteration only when every member of the round is done, with the result
\* of every member recorded
RoundBarrier ==
    /\ [](pc[1] = "gather" => results = readySnap[1])
    /\ [][/\ (pc[1] = "gather" /\ LoopStep) =>
                \A u \in ready_tasks[1] :
                    /\ tstate[1][u] = "done"
                    /\ results'[u] = tresult[1][u]
          /\ \A t \in TaskNames :
                (invocations'[1][t] # invocations[1][t]) =>
                    /\ t \in ready_tasks[1]
                    /\ ready_tasks'[1] = ready_tasks[1]
                    /\ results' = results]_vars

\* a second round is in flight after a first round of two tasks
RoundBarrierWitness ==
    /\ pc[1] = "gather"
    /\ roundNo[1] = 2
    /\ Cardinality({t \in TaskNames : results[t] # NoResult}) >= 2
    /\ \E t \in TaskNames : tstate[1][t] = "invoked"

\* C9 (termination): a started call ends: it returns or raises
Termination == Started ~> Ended

TerminationWitness ==
    /\ Ended
    /\ roundNo[1] >= 2
    /\ FailedTasks # {}

\* C10 (returned object): when execute has returned, the
\* object has workflow_status "completed" and its results map has an entry
\* exactly for the defined tasks, each with the status the task has in
\* workflow.results
ReturnShape ==
    pc[1] = "returned" =>
        /\ retObj[1] # NoObj
        /\ retObj[1].workflow_status = "completed"
        /\ \A t \in TaskNames :
              IF t \in Defined(tasks)
              THEN /\ retObj[1].results[t] # NoResult
                   /\ results[t] # NoResult
                   /\ retObj[1].results[t].status = results[t].status
              ELSE retObj[1].results[t] = NoResult

ChainedContext ==
    \A a, b \in TaskNames :
        (/\ tstate[1][b] = "invoked"
         /\ results[a] # NoResult
         /\ results[a].status = COMPLETED
         /\ results[a].output # None) =>
            \A k \in OutputKeys(results[a].output) :
                invokedCtx[1][b][k] = OutputValue(results[a].output, k)

(* ==================== properties of the Workflow methods =============== *)
Terminal == {COMPLETED, FAILED, CANCELLED}

\* C11 (completion closure): is_complete() is true iff the workflow has at
\* least one task and every defined task has a result with status
\* COMPLETED, FAILED or CANCELLED; with zero tasks it is false
CompletionClosure ==
    /\ IsComplete(tasks, results) <=>
          /\ Cardinality(Defined(tasks)) >= 1
          /\ \A t \in Defined(tasks) :
                results[t] # NoResult /\ StatusOf(t) \in Terminal
    /\ Cardinality(Defined(tasks)) = 0 => ~IsComplete(tasks, results)

\* is_complete() is true of a workflow with a CANCELLED task, and execute
\* has returned on it
CompletionClosureWitness ==
    /\ IsComplete(tasks, results)
    /\ \E t \in Defined(tasks) : StatusOf(t) = CANCELLED
    /\ pc[1] = "returned"


\* the tasks the claim describes, for workflow.results = res
ReadyAsClaimed(res) ==
    {t \in Defined(tasks) :
        /\ \/ res[t] = NoResult
           \/ res[t].status \notin {COMPLETED, RUNNING, FAILED}
        /\ \A d \in tasks[t].depends_on :
              res[d] # NoResult /\ res[d].status = COMPLETED}

\* C12 (get_ready_tasks): get_ready_tasks() returns exactly the defined
\* tasks that have no result or a result with a status other than
\* COMPLETED, RUNNING and FAILED, and whose depends_on names all have a
\* COMPLETED result; the round execute dispatches is that set
ReadyTasksExact ==
    /\ GetReadyTasks(tasks, results) = ReadyAsClaimed(results)
    /\ pc[1] = "gather" => ready_tasks[1] = ReadyAsClaimed(readySnap[1])

\* a round in flight holds a task whose result was CANCELLED and leaves out
\* a task whose dependency was not COMPLETED
ReadyTasksExactWitness ==
    /\ pc[1] = "gather"
    /\ \E t \in ready_tasks[1] :
          readySnap[1][t] # NoResult /\ readySnap[1][t].status = CANCELLED
    /\ \E u \in Defined(tasks) \ ready_tasks[1] : tasks[u].depends_on # {}


\* C13 (readiness monotonicity): a task that get_ready_tasks returns for the
\* second time in a call did not have, at that readiness check, a result
\* with status RUNNING, COMPLETED, FAILED or CANCELLED
ReadinessMonotone ==
    \A t \in TaskNames :
        (pc[1] = "gather" /\ t \in ready_tasks[1] /\ dispatches[1][t] >= 2) =>
            \/ readySnap[1][t] = NoResult
            \/ readySnap[1][t].status \notin {RUNNING} \cup Terminal


\* the names whose entry of workflow.results differs between two states
Changed(old, new) == {n \in TaskNames : new[n] # old[n]}

\* C14 (update_task_result): from every state, two calls for one name leave
\* what the second call alone leaves: the entry of that name is the most
\* recent result, the other entries and the key set are as before; so a
\* call repeated with the same result changes nothing.  In a run, a call by
\* an external collaborator changes the entry of one name at most, and the
\* results execute applies after a round replace the entries of the members
\* of the round, also one recorded before, and no other entry
UpsertIdempotent ==
    /\ [](\A n \in TaskNames, r1, r2 \in InjectedResults :
            LET once == UpdateTaskResult(results, n, r2)
                twice == UpdateTaskResult(UpdateTaskResult(results, n, r1), n, r2)
            IN /\ twice = once
               /\ once[n] = r2
               /\ \A m \in TaskNames \ {n} : once[m] = results[m]
               /\ DOMAIN once = DOMAIN results
               /\ UpdateTaskResult(once, n, r2) = once)
    /\ [][/\ (injections' # injections) =>
                /\ Cardinality(Changed(results, results')) <= 1
                /\ \A n \in Changed(results, results') :
                      results'[n] \in InjectedResults
          /\ (injections' = injections) =>
                \A n \in Changed(results, results') :
                    /\ n \in ready_tasks[1]
                    /\ results'[n] = tresult[1][n]
          /\ (pc[1] = "gather" /\ pc'[1] \in {"gather", "returned", "deadlock"}
                /\ LoopStep) =>
                \A n \in ready_tasks[1] : results'[n] = tresult[1][n]]_vars

\* the result execute recorded for a task has replaced the one an external
\* collaborator had recorded for it
UpsertIdempotentWitness ==
    /\ injections = 1
    /\ \E t \in Defined(tasks) :
          /\ readySnap[1][t] # NoResult
          /\ readySnap[1][t].status \in {PENDING, CANCELLED}
          /\ dispatches[1][t] = 1
          /\ results[t] # NoResult
          /\ results[t].status \in {COMPLETED, FAILED}


(* ================== further properties of execute ====================== *)
\* C15 (results only grow), as claimed: no step removes an entry of
\* workflow.results, and during an execute call a name has an entry only
\* if the task was dispatched in a round of the call
ResultsOnlyGrow ==
    /\ [][\A n \in TaskNames :
            results[n] # NoResult => results'[n] # NoResult]_vars
    /\ [](Started =>
            \A n \in TaskNames : results[n] # NoResult => dispatches[1][n] > 0)

\* C15, amended: no step removes an entry of workflow.results, and during
\* an execute call on a workflow on which no result was recorded by an
\* external collaborator a name has an entry only if the task was
\* dispatched in a round of the call
ResultsOnlyGrowFresh ==
    /\ [][\A n \in TaskNames :
            results[n] # NoResult => results'[n] # NoResult]_vars
    /\ []((Started /\ injections = 0) =>
            \A n \in TaskNames : results[n] # NoResult => dispatches[1][n] > 0)

\* the second round is in flight: the tasks of the first have an entry, the
\* tasks of the second and the tasks not yet dispatched have none
ResultsOnlyGrowWitness ==
    /\ pc[1] = "gather"
    /\ injections = 0
    /\ roundNo[1] = 2
    /\ \E t \in Defined(tasks) : results[t] # NoResult
    /\ \E u \in ready_tasks[1] : results[u] = NoResult


\* C16 (cancellation by injection): a task that has a CANCELLED result and
\* was never dispatched is not dispatched and not invoked by the next step,
\* and its result is still CANCELLED after it; so it is CANCELLED when
\* execute ends
CancelledNeverRuns ==
    [][\A t \in Defined(tasks) :
          (/\ results[t] # NoResult
           /\ results[t].status = CANCELLED
           /\ dispatches[1][t] = 0) =>
              /\ dispatches'[1][t] = 0
              /\ invocations'[1][t] = 0
              /\ results'[t] # NoResult
              /\ results'[t].status = CANCELLED]_vars


\* C17 (duplicate task names): add_task with a name the workflow already
\* has raises ValueError and changes neither tasks nor results; a
\* definition once added is never replaced, and a call that changes tasks
\* adds one name that was absent
AddTaskUnique ==
    [][/\ \A n \in TaskNames, def \in InjDefs :
             (tasks[n] # NoTask /\ AddTask(n, def)) =>
                 /\ lastError' = "ValueError"
                 /\ tasks' = tasks
                 /\ results' = results
       /\ lastError' = "ValueError" => (tasks' = tasks /\ results' = results)
       /\ \A n \in TaskNames : tasks[n] # NoTask => tasks'[n] = tasks[n]
       /\ tasks' # tasks =>
             /\ lastError' = None
             /\ Cardinality(Defined(tasks')) = Cardinality(Defined(tasks)) + 1]_vars

\* add_task has just failed on a workflow that holds tasks and results
AddTaskUniqueWitness ==
    /\ lastError = "ValueError"
    /\ Cardinality(Defined(tasks)) = 2
    /\ \E t \in Defined(tasks) : results[t] # NoResult


\* C18 (deadlock frame): the step at which execute raises the deadlock
\* error returns no object, starts no task and leaves every entry of
\* workflow.results that it found, apart from those of the round it has
\* just applied, as it was; after it no task is dispatched or invoked and
\* workflow.results does not change
DeadlockFrame ==
    /\ [](pc[1] = "deadlock" =>
            /\ retObj[1] = NoObj
            /\ \A t \in TaskNames : tstate[1][t] = "none")
    /\ [][/\ (pc[1] # "deadlock" /\ pc'[1] = "deadlock") =>
                /\ \A n \in TaskNames \ ready_tasks[1] : results'[n] = results[n]
                /\ \A n \in ready_tasks[1] : results'[n] = tresult[1][n]
                /\ invocations' = invocations
                /\ dispatches' = dispatches
          /\ pc[1] = "deadlock" =>
                /\ pc'[1] = "deadlock"
                /\ results' = results
                /\ invocations' = invocations
                /\ dispatches' = dispatches]_vars

\* execute has raised the deadlock error after two rounds
DeadlockFrameWitness ==
    /\ pc[1] = "deadlock"
    /\ roundNo[1] = 2
    /\ Cardinality({t \in Defined(tasks) : results[t] # NoResult}) = 2
    /\ \E t \in Defined(tasks) : results[t] = NoResult


\* C19 (get_status): the counts get_status() reports add up to total_tasks,
\* the number of defined tasks; the PENDING count is the number of defined
\* tasks without an entry in results plus the number of those whose entry
\* is PENDING; and is_complete is the value of is_complete()
StatusCounts ==
    LET st == GetStatus(tasks, results)
        counts == st.status_counts
    IN /\ counts[PENDING] + counts[RUNNING] + counts[COMPLETED]
             + counts[FAILED] + counts[CANCELLED] = st.total_tasks
       /\ st.total_tasks = Cardinality(Defined(tasks))
       /\ counts[PENDING] =
             Cardinality({t \in Defined(tasks) : results[t] = NoResult})
             + Cardinality({t \in Defined(tasks) :
                               results[t] # NoResult /\ results[t].status = PENDING})
       /\ st.is_complete = IsComplete(tasks, results)

\* a task without an entry and a task with a PENDING entry are both counted
\* as PENDING
StatusCountsWitness ==
    /\ GetStatus(tasks, results).status_counts[PENDING] = 2
    /\ GetStatus(tasks, results).total_tasks = 2
    /\ \E t \in Defined(tasks) : results[t] = NoResult
    /\ \E u \in Defined(tasks) : results[u] # NoResult /\ results[u].status = PENDING


\* C20 (at most once): in a call with the engine as only writer of results
\* every task is part of one round at most and its action is invoked once
\* at most; when execute has returned every defined task was part of
\* exactly one round, and its action was invoked exactly once unless the
\* call of the action could not be made; and an entry of workflow.results
\* is never written a second time
AtMostOnce ==
    /\ [](\A t \in TaskNames :
            /\ dispatches[1][t] <= 1
            /\ invocations[1][t] <= dispatches[1][t])
    /\ [](pc[1] = "returned" =>
            \A t \in Defined(tasks) :
                /\ dispatches[1][t] = 1
                /\ raised[1][t] \notin {"ValueError", "TypeError"} =>
                      invocations[1][t] = 1)
    /\ [][\A t \in TaskNames :
            results[t] # NoResult => results'[t] = results[t]]_vars

\* execute has returned after three rounds of one task, one of them FAILED
AtMostOnceWitness ==
    /\ pc[1] = "returned"
    /\ Cardinality(Defined(tasks)) = 3
    /\ \A t \in Defined(tasks) : invocations[1][t] = 1
    /\ \E t \in Defined(tasks) : Cardinality(Reach(t)) = 2
    /\ \E t \in Defined(tasks) : StatusOf(t) = FAILED


\* the members of the round in flight whose action has been invoked
InvokedInRound ==
    {t \in ready_tasks[1] :
        \/ tstate[1][t] = "invoked"
        \/ tstate[1][t] = "done" /\ raised[1][t] \notin {"ValueError", "TypeError"}}

\* C21 (no context write within a round): while a round is in flight the
\* context of the call does not change, every invocation passes the context
\* of that moment, and so every member of the round invoked so far was
\* invoked with the same context, whatever its siblings have returned
ContextStableInRound ==
    /\ [](pc[1] = "gather" =>
            \A t \in InvokedInRound :
                invokedCtx[1][t] = Kwargs(tasks[t].parameters, context[1]))
    /\ [][/\ (pc[1] = "gather" /\ ~LoopStep) => context'[1] = context[1]
          /\ \A t \in TaskNames :
                invocations'[1][t] # invocations[1][t] =>
                    invokedCtx'[1][t] = Kwargs(tasks[t].parameters, context[1])]_vars

\* a member of a round has returned the mapping {"x": 1} and a sibling
\* invoked in the same round has no x = 1 among its keyword arguments
ContextStableInRoundWitness ==
    /\ pc[1] = "gather"
    /\ \E a, b \in ready_tasks[1] :
          /\ a # b
          /\ tstate[1][a] = "done"
          /\ tresult[1][a] = TaskResult(COMPLETED, MapX1, None)
          /\ tstate[1][b] = "invoked"
          /\ invokedCtx[1][b]["x"] # "1"


\* the step of execute that resumes after the gather of the round in flight
ResumeStep ==
    /\ pc[1] = "gather"
    /\ GatherDone(ready_tasks[1], tstate[1])
    /\ LoopStep \/ pc'[1] = "error"

\* C22 (exception objects are ignored): an exception object among the
\* gathered results of a round does not abort the call; when execute
\* resumes, the entry of a member that yielded an exception object is left
\* as it was and the TaskResult of every other member is recorded
ExceptionObjectIgnored ==
    /\ [](pc[1] # "error")
    /\ [][ResumeStep =>
            \A u \in ready_tasks[1] :
                IF IsExcObject(tresult[1][u])
                THEN results'[u] = results[u]
                ELSE results'[u] = tresult[1][u]]_vars


\* C23 (recorded statuses): a result execute writes to workflow.results is
\* COMPLETED without an error or FAILED with an error and without an
\* output, never PENDING, RUNNING or CANCELLED; and an entry that is
\* COMPLETED or FAILED is not changed by any later step of the call
RecordedStatuses ==
    [][/\ \A n \in Changed(results, results') :
             injections' = injections =>
                 \/ /\ results'[n].status = COMPLETED
                    /\ results'[n].error = None
                 \/ /\ results'[n].status = FAILED
                    /\ results'[n].error # None
                    /\ results'[n].output = None
       /\ \A n \in TaskNames :
             (results[n] # NoResult /\ results[n].status \in {COMPLETED, FAILED}) =>
                 results'[n] = results[n]]_vars

\* execute has returned with a task COMPLETED with an output and a task
\* FAILED with the error of its action
RecordedStatusesWitness ==
    /\ pc[1] = "returned"
    /\ \E a, b \in Defined(tasks) :
          /\ results[a] = TaskResult(COMPLETED, MapX1, None)
          /\ results[b] = TaskResult(FAILED, None, "ActionError")
          /\ a \in tasks[b].depends_on


\* C24 (retry_count is not enforced): whatever its retry_count, a task is
\* dispatched once at most and its action invoked once at most; a task
\* whose action has raised has been invoked exactly once and is recorded
\* FAILED when its round is over; and a FAILED entry stays as it is
RetryNotEnforced ==
    /\ [](\A t \in Defined(tasks) :
            /\ dispatches[1][t] <= 1
            /\ invocations[1][t] <= 1
            /\ raised[1][t] # None => invocations[1][t] = 1
            /\ (raised[1][t] # None /\ tstate[1][t] = "none") =>
                  results[t] = TaskResult(FAILED, None, raised[1][t]))
    /\ [][\A t \in TaskNames :
            (results[t] # NoResult /\ results[t].status = FAILED) =>
                results'[t] = results[t]]_vars

\* a task with a retry_count above 0 has failed, the task that depends on
\* it is blocked, and the call has ended in deadlock after the one round:
\* the failed task was invoked once and is FAILED
RetryNotEnforcedWitness ==
    /\ pc[1] = "deadlock"
    /\ roundNo[1] = 1
    /\ \E t, u \in Defined(tasks) :
          /\ tasks[t].retry_count > 0
          /\ StatusOf(t) = FAILED
          /\ invocations[1][t] = 1
          /\ t \in tasks[u].depends_on


\* the resolution the claim describes for a reference and a context
ResolutionAsClaimed(action, ctx) ==
    IF action = Callable THEN "direct"
    ELSE IF action = NonString THEN "ValueError"
    ELSE IF action \in {"x", "y"} /\ ctx[action] = Callable THEN "context"
    ELSE IF action = "m.f" THEN "module"
    ELSE "ValueError"

\* C25 (resolution order): for every task and the context of the call,
\* _resolve_action gives the callable itself for a callable whatever the
\* context, the binding for a dot-free name bound to a callable, the module
\* attribute for any other string when it is an importable dotted path, and
\* a ValueError otherwise; a task is invoked only when its reference
\* resolves, and ends with ValueError exactly when it does not
ResolutionOrder ==
    \A t \in Defined(tasks) :
        Started =>
            LET r == ResolveAction(tasks[t].action, context[1])
            IN /\ r = ResolutionAsClaimed(tasks[t].action, context[1])
               /\ tasks[t].action = Callable => r = "direct"
               /\ invocations[1][t] > 0 => r # "ValueError"
               /\ (dispatches[1][t] > 0 /\ tstate[1][t] \in {"none", "done"}) =>
                     ((raised[1][t] = "ValueError") <=> (r = "ValueError"))

\* a task whose action is a dot-free name bound to a datum in the context
\* has ended FAILED with the resolution error
ResolutionOrderWitness ==
    /\ pc[1] = "returned"
    /\ \E t \in Defined(tasks) :
          /\ tasks[t].action = "x"
          /\ context[1]["x"] = "1"
          /\ results[t] = TaskResult(FAILED, None, "ValueError")
          /\ invocations[1][t] = 0


\* C26 (empty workflow): a call on a workflow without tasks finds
\* is_complete() false and the ready list empty: it has raised the deadlock
\* error, returned no object, and dispatched and invoked nothing
EmptyWorkflowDeadlocks ==
    (Started /\ Cardinality(Defined(tasks)) = 0) =>
        /\ ~IsComplete(tasks, results)
        /\ GetReadyTasks(tasks, results) = {}
        /\ pc[1] = "deadlock"
        /\ retObj[1] = NoObj
        /\ roundNo[1] = 0
        /\ \A t \in TaskNames : dispatches[1][t] = 0 /\ invocations[1][t] = 0

\* execute has raised on a workflow without tasks
EmptyWorkflowDeadlocksWitness ==
    /\ Defined(tasks) = {}
    /\ pc[1] = "deadlock"
    /\ results = [n \in TaskNames |-> NoResult]


\* C27 (execute on a complete workflow): a call that starts when
\* is_complete() is true returns at its first step with workflow_status
\* "completed"; the step changes no entry of workflow.results and
\* dispatches and invokes nothing
CompleteIsNoOp ==
    [][\A c \in Calls :
          (pc[c] = "idle" /\ pc'[c] # "idle" /\ IsComplete(tasks, results)) =>
              /\ pc'[c] = "returned"
              /\ retObj'[c] # NoObj
              /\ retObj'[c].workflow_status = "completed"
              /\ results' = results
              /\ tasks' = tasks
              /\ dispatches' = dispatches
              /\ invocations' = invocations
              /\ roundNo'[c] = 0
              /\ \A t \in TaskNames : tstate'[c][t] = "none"]_vars

\* the second call has returned without a round on the workflow the first
\* call had completed in two rounds
CompleteIsNoOpWitness ==
    /\ pc[1] = "returned" /\ roundNo[1] = 2
    /\ pc[2] = "returned" /\ roundNo[2] = 0
    /\ \A t \in TaskNames : invocations[2][t] = 0
    /\ Cardinality(Defined(tasks)) = 2


\* the TaskResult of a task whose call fails before the action body runs
FailsBeforeBody(t) ==
    TaskResult(FAILED, None,
               IF ResolveAction(tasks[t].action, callerCtx[1]) = "ValueError"
               THEN "ValueError" ELSE "TypeError")

\* a parameter of the task is also a key of the context of the call
SharesKey(t) ==
    \E k \in tasks[t].parameters : callerCtx[1][k] # Absent

\* C28 (parameter/context collision): a task whose parameters share a key
\* with the context of the call is never invoked, its coroutine ends with a
\* FAILED result (TypeError of the call, or ValueError when the action does
\* not resolve either) and that is the result recorded for it; a task
\* whose parameters are disjoint from the context and whose action resolves
\* is invoked once it is dispatched, with both keyword sets, and its
\* recorded result is the one of its own action
KwargsCollisionFails ==
    \A t \in TaskNames :
        (tasks[t] # NoTask /\ pc[1] # "idle") =>
            IF SharesKey(t)
            THEN /\ invocations[1][t] = 0
                 /\ tstate[1][t] # "invoked"
                 /\ tstate[1][t] = "done" => tresult[1][t] = FailsBeforeBody(t)
                 /\ results[t] # NoResult => results[t] = FailsBeforeBody(t)
            ELSE ResolveAction(tasks[t].action, callerCtx[1]) # "ValueError" =>
                 /\ tstate[1][t] \in {"invoked", "done"} =>
                        /\ invocations[1][t] = 1
                        /\ invokedCtx[1][t] =
                               Kwargs(tasks[t].parameters, callerCtx[1])
                 /\ tstate[1][t] = "done" =>
                        tresult[1][t].status =
                            (IF raised[1][t] = None THEN COMPLETED ELSE FAILED)
                 /\ results[t] # NoResult =>
                        /\ invocations[1][t] = 1
                        /\ results[t].status \in {COMPLETED, FAILED}
                        /\ results[t].error \in {None, "ActionError"}

\* a call has returned after a round of two tasks with the parameter "y":
\* the context binds "y"; one task's action resolves, the call of it failed
\* with TypeError; the other has no parameters and is COMPLETED
KwargsCollisionFailsWitness ==
    /\ pc[1] = "returned"
    /\ callerCtx[1]["y"] # Absent
    /\ \E t, u \in TaskNames :
          /\ tasks[t] # NoTask /\ tasks[u] # NoTask
          /\ tasks[t].parameters = {"y"} /\ tasks[u].parameters = {}
          /\ tasks[t].action = Callable /\ tasks[u].action = Callable
          /\ results[t] = TaskResult(FAILED, None, "TypeError")
          /\ invocations[1][t] = 0
          /\ results[u].status = COMPLETED
          /\ invocations[1][u] = 1
          /\ roundNo[1] = 1


\* the TaskResult the coroutine of task t ends with when its action has the
\* fixed outcome of SchedOutcome
FixedResult(t) ==
    IF ResolveAction(tasks[t].action, EmptyContext) = "ValueError"
    THEN TaskResult(FAILED, None, "ValueError")
    ELSE IF tasks[t].action = Callable
         THEN TaskResult(COMPLETED, None, None)
         ELSE TaskResult(FAILED, None, "ActionError")

RECURSIVE RoundResults(_)
\* workflow.results after k rounds, computed from the task definitions
\* alone: each round is the ready set of the results before it, and every
\* member of it gets its fixed result
RoundResults(k) ==
    IF k = 0 THEN [n \in TaskNames |-> NoResult]
    ELSE LET prev == RoundResults(k - 1)
             rnd == IF IsComplete(tasks, prev) THEN {}
                    ELSE GetReadyTasks(tasks, prev)
         IN [n \in TaskNames |-> IF n \in rnd THEN FixedResult(n) ELSE prev[n]]

\* the members of round k (k >= 1), empty when the call has ended before it
RoundMembers(k) ==
    IF IsComplete(tasks, RoundResults(k - 1)) THEN {}
    ELSE GetReadyTasks(tasks, RoundResults(k - 1))

FinalResults == RoundResults(Cardinality(Defined(tasks)))

\* C29 (schedule independence): with one fixed outcome per task, whatever
\* the order in which the members of a round start and finish, the round
\* in flight and the results before it are those of one sequence of rounds
\* that the task definitions determine, and the call ends with the final
\* results of that sequence, returning if they complete the workflow and
\* raising deadlock if not
ScheduleIndependent ==
    /\ pc[1] = "gather" =>
          \E k \in 1..Cardinality(Defined(tasks)) :
              /\ RoundMembers(k) # {}
              /\ ready_tasks[1] = RoundMembers(k)
              /\ results = RoundResults(k - 1)
    /\ pc[1] # "error"
    /\ Ended =>
          /\ results = FinalResults
          /\ pc[1] = (IF IsComplete(tasks, FinalResults)
                      THEN "returned" ELSE "deadlock")

\* the second round of a call is in flight after a first round of two
\* members, one of which failed; a third task depends on the failed one
ScheduleIndependentWitness ==
    /\ pc[1] = "gather"
    /\ Cardinality(RoundMembers(1)) = 2
    /\ ready_tasks[1] = RoundMembers(2)
    /\ ready_tasks[1] # {}
    /\ \E t \in RoundMembers(1) : results[t].status = FAILED
    /\ \E t \in RoundMembers(1) : results[t].status = COMPLETED


InFlight(c) == pc[c] = "gather"

\* C30 (overlapping execute calls): no entry of workflow.results is ever
\* RUNNING and results change only in a step that resumes a call whose
\* round is done, never at a dispatch or an invocation; and a call that
\* dispatches a task while the other call is not in flight dispatches a
\* task that no call has dispatched before
NoRunningMarker ==
    /\ [](\A n \in TaskNames :
             results[n] # NoResult => results[n].status # RUNNING)
    /\ [][/\ results' # results =>
                \E c \in Calls :
                    /\ InFlight(c)
                    /\ GatherDone(ready_tasks[c], tstate[c])
                    /\ invocations' = invocations
          /\ \A c, d \in Calls, t \in TaskNames :
                (/\ c # d
                 /\ dispatches'[c][t] # dispatches[c][t]
                 /\ ~InFlight(d)) =>
                    dispatches[c][t] = 0 /\ dispatches[d][t] = 0]_vars

\* both calls are in flight and the action of one task has been invoked by
\* each of them, while the task has no result
NoRunningMarkerWitness ==
    /\ InFlight(1) /\ InFlight(2)
    /\ \E t \in TaskNames :
          /\ tstate[1][t] = "invoked" /\ tstate[2][t] = "invoked"
          /\ invocations[1][t] = 1 /\ invocations[2][t] = 1
          /\ results[t] = NoResult

====
